---- MODULE Spec2Model ----
(***************************************************************************)
(* Life-Improver: the scoring and challenge lifecycle logic of the backend *)
(* routes (server/routes/challenges.js, its task-list variant, and         *)
(* server/routes/tasks.js) over the tables of the Supabase migration.      *)
(*                                                                         *)
(* Dates are day numbers (day 0 = 2025-01-01); the server is taken to run  *)
(* in UTC, so that toISOString().split('T')[0] names the local day.        *)
(* Decimal columns are fixed-point integers in hundredths.                 *)
(***************************************************************************)
EXTENDS Integers, Sequences, FiniteSets, TLC

(***************************************************************************)
(* Bounds of the model.                                                    *)
(***************************************************************************)
MaxDay == 1
MaxStat == 2

(***************************************************************************)
(* The store: the tables of the migration.                                 *)
(***************************************************************************)
VARIABLES
  variant,               \* "plain" (routes/challenges.js) or "tasklist" (its task-list variant)
  today,                 \* the server's current day
  profiles,              \* id -> [username, total_wins, total_losses]
  challenges,            \* id -> row of table challenges (only the inserted ids)
  challenge_task_lists,  \* rows [challenge_id, user_id] (task-list variant)
  tasks,                 \* id -> [user_id, duration_hours, points, is_active]
  task_completions,      \* <<user_id, task_id, completion_date>> -> [actual_duration_hours, earned_points]
  daily_scores,          \* <<user_id, score_date>> -> [total_possible_points, earned_points, percentage_score]
  response,              \* the last request handled alone and the response sent
  procs,                 \* the requests being handled concurrently, with their locals
  apiClient              \* the browser's ApiClient: its token and its calls of request in flight

vars == <<variant, today, profiles, challenges, challenge_task_lists, tasks, task_completions,
          daily_scores, response, procs, apiClient>>

Null == "null"
UserIds == {"u1", "u2", "u3"}
Usernames == [u1 |-> "ann", u2 |-> "bob", u3 |-> "cat"]
\* Ids of table challenges: "c1" is the id the store hands out, "c0" is never inserted.
ChallengeIds == {"c1"}
IdInputs == {"c0", "c1"}
Variants == {"plain", "tasklist"}

(***************************************************************************)
(* Calendar arithmetic of the JavaScript Date object, on day numbers.      *)
(***************************************************************************)
IsLeap(y) == (y % 4 = 0 /\ y % 100 # 0) \/ y % 400 = 0

DaysInMonth(y, m) ==
  IF m = 2 THEN (IF IsLeap(y) THEN 29 ELSE 28)
  ELSE IF m \in {4, 6, 9, 11} THEN 30 ELSE 31

DaysInYear(y) == IF IsLeap(y) THEN 366 ELSE 365

RECURSIVE DaysBeforeYear(_)
DaysBeforeYear(y) == IF y <= 2025 THEN 0 ELSE DaysInYear(y - 1) + DaysBeforeYear(y - 1)

RECURSIVE DaysBeforeMonth(_, _)
DaysBeforeMonth(y, m) == IF m <= 1 THEN 0 ELSE DaysInMonth(y, m - 1) + DaysBeforeMonth(y, m - 1)

\* MakeDay(year, month, date): month (1-based here) and date may overflow and carry.
MakeDay(y, m, d) ==
  LET yy == y + ((m - 1) \div 12)
      mm == ((m - 1) % 12) + 1
  IN  DaysBeforeYear(yy) + DaysBeforeMonth(yy, mm) + (d - 1)

RECURSIVE YearOf(_, _)
YearOf(n, y) == IF n < DaysInYear(y) THEN y ELSE YearOf(n - DaysInYear(y), y + 1)

RECURSIVE MonthOf(_, _, _)
MonthOf(n, y, m) == IF n < DaysInMonth(y, m) THEN m ELSE MonthOf(n - DaysInMonth(y, m), y, m + 1)

\* getFullYear / getMonth (1-based here) / getDate of day number n >= 0
GetFullYear(n) == YearOf(n, 2025)
GetMonth(n) == MonthOf(n - DaysBeforeYear(GetFullYear(n)), GetFullYear(n), 1)
GetDate(n) == n - MakeDay(GetFullYear(n), GetMonth(n), 1) + 1

\* The switch on duration_type of the create handler; an unknown type leaves endDate = startDate.
EndDate(start, duration_type, duration_count) ==
  LET y == GetFullYear(start)
      m == GetMonth(start)
      d == GetDate(start)
  IN  CASE duration_type = "day"   -> MakeDay(y, m, d + duration_count)
        [] duration_type = "week"  -> MakeDay(y, m, d + (duration_count * 7))
        [] duration_type = "month" -> MakeDay(y, m + duration_count, d)
        [] duration_type = "year"  -> MakeDay(y + duration_count, m, d)
        [] OTHER -> start

FirstDay == MakeDay(2025, 1, 30)

(***************************************************************************)
(* Table challenges and its CHECK constraint; the profile counters.        *)
(***************************************************************************)
\* CHECK (status IN ('pending', 'active', 'completed', 'cancelled'))
StatusCheck(status) == status \in {"pending", "active", "completed", "cancelled"}

\* FindByUsername without .eq('username', challenger_username)
FindAnyProfile(name) == UserIds

\* .from('profiles').select('id').eq('username', name).maybeSingle()
FindByUsername(name) == {u \in DOMAIN profiles : profiles[u].username = name}

\* id uuid DEFAULT uuid_generate_v4(): a fresh id
NewId == CHOOSE i \in ChallengeIds \ DOMAIN challenges : TRUE

\* .update(fields) of the row with this id
UpdateChallenge(chs, id, fields) ==
  [chs EXCEPT ![id] = [f \in DOMAIN chs[id] |->
                         IF f \in DOMAIN fields THEN fields[f] ELSE chs[id][f]]]

\* rpc('increment_wins', {user_id}) / rpc('increment_losses', {user_id})
IncrementWins(prof, u) == [prof EXCEPT ![u].total_wins = @ + 1]
IncrementLosses(prof, u) == [prof EXCEPT ![u].total_losses = @ + 1]

(***************************************************************************)
(* The completion sweep's per-challenge computation.                       *)
(***************************************************************************)
RECURSIVE SumOver(_, _)
SumOver(S, f) ==
  IF S = {} THEN 0
  ELSE LET x == CHOOSE y \in S : TRUE IN f[x] + SumOver(S \ {x}, f)

\* .from('daily_scores').select('percentage_score').eq('user_id', u)
\*   .gte('score_date', from).lte('score_date', to), as the reduce() and .length of the rows
ScoresInRange(scores, u, from, to) ==
  LET keys == {k \in DOMAIN scores : k[1] = u /\ from <= k[2] /\ k[2] <= to}
  IN  [sum |-> SumOver(keys, [k \in DOMAIN scores |-> scores[k].percentage_score]),
       length |-> Cardinality(keys)]

\* AvgGreater comparing the sums of the rows, not their means
SumGreater(a, b) == a.sum > b.sum

\* avg(a) > avg(b), where avg(x) = x.length > 0 ? x.sum / x.length : 0, as exact fractions
AvgGreater(a, b) ==
  CASE a.length > 0 /\ b.length > 0 -> a.sum * b.length > b.sum * a.length
    [] a.length > 0 /\ b.length = 0 -> a.sum > 0
    [] a.length = 0 /\ b.length > 0 -> 0 > b.sum
    [] OTHER -> FALSE

\* let winnerId = null; if (creatorAvg > challengerAvg) ... else if (challengerAvg > creatorAvg) ...
WinnerFrom(ch, creatorScores, challengerScores) ==
  IF AvgGreater(creatorScores, challengerScores) THEN ch.creator_id
  ELSE IF AvgGreater(challengerScores, creatorScores) THEN ch.challenger_id
  ELSE Null

WinnerOf(scores, ch) ==
  WinnerFrom(ch,
             ScoresInRange(scores, ch.creator_id, ch.start_date, ch.end_date),
             ScoresInRange(scores, ch.challenger_id, ch.start_date, ch.end_date))

LoserOf(ch, winnerId) ==
  IF winnerId = ch.creator_id THEN ch.challenger_id ELSE ch.creator_id

\* EndedActive with .lt('end_date', today)
EndedActiveBefore(chs, day) ==
  {c \in DOMAIN chs : chs[c].status = "active" /\ chs[c].end_date < day}

\* EndedActive without .eq('status', 'active')
EndedAnyStatus(chs, day) == {c \in DOMAIN chs : chs[c].end_date <= day}

\* .from('challenges').select('*').eq('status', 'active').lte('end_date', today)
EndedActive(chs, day) ==
  {c \in DOMAIN chs : chs[c].status = "active" /\ chs[c].end_date <= day}

\* One iteration of the sweep's loop, on the row `ch` read by the select.
CompleteOne(db, c, ch, scores) ==
  LET winnerId == WinnerOf(scores, ch)
      chs == UpdateChallenge(db.challenges, c, [status |-> "completed", winner_id |-> winnerId])
  IN  [challenges |-> chs,
       profiles |-> IF winnerId # Null
                    THEN IncrementLosses(IncrementWins(db.profiles, winnerId), LoserOf(ch, winnerId))
                    ELSE db.profiles]

\* The whole loop over the selected rows `list` (a set: the select has no ORDER BY),
\* run without any other request in between.
RECURSIVE CompleteAll(_, _, _, _)
CompleteAll(db, list, rows, scores) ==
  IF list = {} THEN db
  ELSE LET c == CHOOSE x \in list : TRUE
       IN  CompleteAll(CompleteOne(db, c, rows[c], scores), list \ {c}, rows, scores)

\* The effect of POST /complete on the store when it runs alone.
CompleteRun(db, day, scores) ==
  CompleteAll(db, EndedActive(db.challenges, day), db.challenges, scores)

Db == [challenges |-> challenges, profiles |-> profiles]

(***************************************************************************)
(* Initial store.                                                          *)
(***************************************************************************)
NoRows == [x \in {} |-> Null]

InitProfiles == [u \in UserIds |-> [username |-> Usernames[u], total_wins |-> 0, total_losses |-> 0]]

\* Daily scores the users' completions can have left: u1 none or one full day,
\* u2 none or a half day and a full day.
ScoreRow(total, earned, pct) ==
  [total_possible_points |-> total, earned_points |-> earned, percentage_score |-> pct]
InitScores ==
  {a @@ b : a \in {NoRows, <<"u1", FirstDay>> :> ScoreRow(10, 1000, 10000)},
            b \in {NoRows, (<<"u2", FirstDay>> :> ScoreRow(10, 500, 5000)) @@
                           (<<"u2", FirstDay + 1>> :> ScoreRow(10, 1000, 10000))}}

\* op, user, id, accept: the request; code: the HTTP status; completed: the number in
\* the message `Completed ${challenges.length} challenges`
\* name: challenger_username of a create request (null for the other requests)
\* hours: actual_duration_hours of a completion request (0 for the other requests)
Response(op, u, id, accept, code, completed) ==
  [op |-> op, user |-> u, id |-> id, accept |-> accept, name |-> Null, hours |-> 0,
   code |-> code, completed |-> completed]

(***************************************************************************)
(* The browser's ApiClient.                                                *)
(***************************************************************************)
MAX_RETRIES == 3
RETRY_DELAY == 1000

\* The calls of request that may be in flight at once.
CallIds == {"r1", "r2"}

\* A call of request not made yet: its position, its retryCount parameter, the
\* Authorization header of the attempt, and a log of the statuses received and the
\* delays awaited.
IdleCall ==
  [pc |-> "idle", retryCount |-> 0, authorization |-> Null, statuses |-> <<>>,
   waits |-> <<>>, thrown |-> Null]

\* No token in localStorage, no call made.
IdleClient == [token |-> Null, calls |-> [r \in CallIds |-> IdleCall]]

InitStore ==
  /\ today = FirstDay
  /\ apiClient = IdleClient
  /\ profiles = InitProfiles
  /\ tasks = NoRows
  /\ task_completions = NoRows
  /\ daily_scores \in InitScores
  /\ response = Response("none", Null, Null, FALSE, 0, 0)

(***************************************************************************)
(* POST /challenges: create.                                               *)
(***************************************************************************)
\* u1 and u2 challenge each other, themselves or an unknown name; u3 takes no part.
CreateCallers == {"u1", "u2"}
UsernameInputs == {"ann", "bob", "zed"}
\* task_list_id of the request body, read by the task-list variant when accept is set
TaskListInputs(v, accept) == IF v = "tasklist" /\ accept THEN {Null, "t1"} ELSE {Null}
\* duration_type and duration_count of the request body: well-formed ones, a count of 0
\* and a unit the switch does not know
DurationInputs == {<<"day", 1>>, <<"week", 1>>, <<"month", 1>>, <<"day", 0>>, <<"hour", 1>>}

\* The inserts into challenge_task_lists and challenge_tasks and the select of tasks
\* (task-list variant) go to tables whose schema is not part of the migration: each
\* may succeed or return an error.
TailOutcomes(v) ==
  IF v = "plain" THEN {"ok"} ELSE {"ok", "list_error", "tasks_error", "challenge_tasks_error"}

NewChallenge(creator, challenger, start, end) ==
  [creator_id |-> creator, challenger_id |-> challenger, start_date |-> start,
   end_date |-> end, status |-> "pending", winner_id |-> Null]

Result(chs, lists, code) == [challenges |-> chs, challenge_task_lists |-> lists, code |-> code]

\* Whether create gets as far as the insert into challenges.
CreateInserts(u, challenger_username) ==
  LET found == FindByUsername(challenger_username)
  IN  found # {} /\ (CHOOSE x \in found : TRUE) # u

CreateResult(u, challenger_username, duration_type, duration_count, tail) ==
  LET found == FindByUsername(challenger_username) IN
  IF found = {} THEN Result(challenges, challenge_task_lists, 404)
  ELSE LET challengerId == CHOOSE x \in found : TRUE IN
       IF challengerId = u THEN Result(challenges, challenge_task_lists, 400)
       ELSE LET chs == challenges @@
                         (NewId :> NewChallenge(u, challengerId, today,
                                                EndDate(today, duration_type, duration_count)))
            IN  IF variant = "plain" THEN Result(chs, challenge_task_lists, 201)
                ELSE Result(chs,
                            IF tail = "list_error" THEN challenge_task_lists
                            ELSE challenge_task_lists \cup {[challenge_id |-> NewId, user_id |-> u]},
                            IF tail = "ok" THEN 201 ELSE 400)

(***************************************************************************)
(* PUT /challenges/:id/respond.                                            *)
(***************************************************************************)
\* const status = accept ? 'active' : 'cancelled'   (task-list variant: 'rejected')
RespondStatus(v, accept) ==
  IF accept THEN "active" ELSE IF v = "plain" THEN "cancelled" ELSE "rejected"

\* RespondMatch without .eq('challenger_id', req.user.id)
RespondMatchAnyUser(chs, id, u) == {c \in DOMAIN chs : c = id}

\* .update({ status }).eq('id', id).eq('challenger_id', req.user.id): the rows matched
RespondMatch(chs, id, u) == {c \in DOMAIN chs : c = id /\ chs[c].challenger_id = u}

\* if (accept && !task_list_id) return 400   (task-list variant)
RespondRefused(v, accept, task_list_id) == v = "tasklist" /\ accept /\ task_list_id = Null

\* The update of challenges and what follows it.
RespondUpdate(u, id, accept, tail) ==
  LET status == RespondStatus(variant, accept)
      rows == RespondMatch(challenges, id, u)
  IN  IF rows = {} \/ ~StatusCheck(status)
      THEN \* .single() finds no row, or the CHECK constraint rejects the update
           Result(challenges, challenge_task_lists, 400)
      ELSE LET chs == UpdateChallenge(challenges, id, [status |-> status]) IN
           IF variant = "tasklist" /\ accept
           THEN Result(chs,
                       IF tail \in {"tasks_error", "list_error"} THEN challenge_task_lists
                       ELSE challenge_task_lists \cup {[challenge_id |-> id, user_id |-> u]},
                       IF tail = "ok" THEN 200 ELSE 400)
           ELSE Result(chs, challenge_task_lists, 200)

RespondResult(u, id, accept, task_list_id, tail) ==
  IF RespondRefused(variant, accept, task_list_id)
  THEN Result(challenges, challenge_task_lists, 400)
  ELSE RespondUpdate(u, id, accept, tail)

(***************************************************************************)
(* PUT /challenges/:id/cancel.                                             *)
(***************************************************************************)
\* CancelCheck without the check of the status
CancelCheckNoStatus(chs, id, u) ==
  IF id \notin DOMAIN chs THEN 404
  ELSE IF chs[id].creator_id # u THEN 403
  ELSE 0

\* The checks on the row read: 404, 403, 400, or 0 to go on to the update.
CancelCheck(chs, id, u) ==
  IF id \notin DOMAIN chs THEN 404
  ELSE IF chs[id].creator_id # u THEN 403
  ELSE IF chs[id].status # "pending" THEN 400
  ELSE 0

\* .update({ status: 'cancelled' }).eq('id', id)
CancelUpdate(chs, id) == UpdateChallenge(chs, id, [status |-> "cancelled"])

CancelResult(u, id) ==
  LET code == CancelCheck(challenges, id, u) IN
  IF code # 0 THEN Result(challenges, challenge_task_lists, code)
  ELSE Result(CancelUpdate(challenges, id), challenge_task_lists, 200)

(***************************************************************************)
(* Requests handled one at a time: each action is one whole handler.       *)
(***************************************************************************)
Apply(op, u, id, accept, r) ==
  /\ challenges' = r.challenges
  /\ challenge_task_lists' = r.challenge_task_lists
  /\ response' = Response(op, u, id, accept, r.code, 0)
  /\ UNCHANGED <<apiClient, variant, today, profiles, tasks, task_completions, daily_scores, procs>>

Create(u, challenger_username, duration_type, duration_count, tail) ==
  /\ CreateInserts(u, challenger_username) => DOMAIN challenges # ChallengeIds
  /\ LET r == CreateResult(u, challenger_username, duration_type, duration_count, tail)
     IN  /\ challenges' = r.challenges
         /\ challenge_task_lists' = r.challenge_task_lists
         /\ response' = [Response("create", u, Null, FALSE, r.code, 0)
                           EXCEPT !.name = challenger_username]
  /\ UNCHANGED <<apiClient, variant, today, profiles, tasks, task_completions, daily_scores, procs>>

Respond(u, id, accept, task_list_id, tail) ==
  Apply("respond", u, id, accept, RespondResult(u, id, accept, task_list_id, tail))

Cancel(u, id) == Apply("cancel", u, id, FALSE, CancelResult(u, id))

StatsWithin(prof) ==
  \A u \in DOMAIN prof : prof[u].total_wins <= MaxStat /\ prof[u].total_losses <= MaxStat

Complete ==
  LET after == CompleteRun(Db, today, daily_scores) IN
  /\ StatsWithin(after.profiles)
  /\ challenges' = after.challenges
  /\ profiles' = after.profiles
  /\ response' = Response("complete", Null, Null, FALSE, 200,
                           Cardinality(EndedActive(challenges, today)))
  /\ UNCHANGED <<apiClient, variant, today, tasks, task_completions, daily_scores, challenge_task_lists, procs>>

\* The server's clock passes midnight.
Tick ==
  /\ today < FirstDay + MaxDay
  /\ today' = today + 1
  /\ UNCHANGED <<apiClient, variant, profiles, challenges, challenge_task_lists, tasks, task_completions, daily_scores, response, procs>>

\* Two requests in flight: every interleaving claimed is one of a pair of requests.
ProcIds == {"p1", "p2"}
NoScores == [sum |-> 0, length |-> 0]
IdleProc ==
  [pc |-> "idle", op |-> "none", user |-> Null, id |-> Null, accept |-> FALSE,
   code |-> 0, rows |-> NoRows, todo |-> {}, current |-> Null,
   creatorScores |-> NoScores, challengerScores |-> NoScores, winnerId |-> Null]

Init ==
  /\ InitStore
  /\ variant \in Variants
  /\ challenges = NoRows
  /\ challenge_task_lists = {}
  /\ procs = [p \in ProcIds |-> IdleProc]

DoCreate ==
  \E u \in CreateCallers, name \in UsernameInputs, dur \in DurationInputs,
     tail \in TailOutcomes(variant) :
    Create(u, name, dur[1], dur[2], tail)

DoRespond ==
  \E u \in UserIds, id \in IdInputs, accept \in BOOLEAN, tail \in TailOutcomes(variant) :
    \E task_list_id \in TaskListInputs(variant, accept) :
      Respond(u, id, accept, task_list_id, tail)

DoCancel == \E u \in UserIds, id \in IdInputs : Cancel(u, id)

Next == DoCreate \/ DoRespond \/ DoCancel \/ Complete \/ Tick

Spec == Init /\ [][Next]_vars

(***************************************************************************)
(* Requests handled concurrently: a handler yields at each await, so every *)
(* call to the store is one step and steps of different requests           *)
(* interleave.  Each process is one request and keeps its response.        *)
(***************************************************************************)
Free(p) == procs[p].pc = "idle"

Set(p, fields) ==
  procs' = [procs EXCEPT ![p] = [f \in DOMAIN IdleProc |->
                                   IF f \in DOMAIN fields THEN fields[f] ELSE procs[p][f]]]

Begin(p, fields) == Set(p, fields)

\* create: the profile lookup, then the insert(s)
PCreate(p, u, challenger_username, duration_type, duration_count, tail) ==
  LET r == CreateResult(u, challenger_username, duration_type, duration_count, tail) IN
  /\ Free(p)
  /\ CreateInserts(u, challenger_username) => DOMAIN challenges # ChallengeIds
  /\ challenges' = r.challenges
  /\ challenge_task_lists' = r.challenge_task_lists
  /\ Begin(p, [pc |-> "done", op |-> "create", user |-> u, code |-> r.code])
  /\ UNCHANGED <<apiClient, variant, today, profiles, tasks, task_completions, daily_scores, response>>

\* respond: the request is received ...
PRespondBegin(p, u, id, accept, task_list_id) ==
  /\ Free(p)
  /\ IF RespondRefused(variant, accept, task_list_id)
     THEN Begin(p, [pc |-> "done", op |-> "respond", user |-> u, id |-> id, accept |-> accept,
                    code |-> 400])
     ELSE Begin(p, [pc |-> "respond_update", op |-> "respond", user |-> u, id |-> id,
                    accept |-> accept])
  /\ UNCHANGED <<apiClient, variant, today, profiles, challenges, challenge_task_lists, tasks, task_completions, daily_scores, response>>

\* ... and its update reaches the store
PRespondUpdate(p, tail) ==
  LET me == procs[p]
      r == RespondUpdate(me.user, me.id, me.accept, tail)
  IN
  /\ me.pc = "respond_update"
  /\ challenges' = r.challenges
  /\ challenge_task_lists' = r.challenge_task_lists
  /\ Set(p, [pc |-> "done", code |-> r.code])
  /\ UNCHANGED <<apiClient, variant, today, profiles, tasks, task_completions, daily_scores, response>>

\* cancel: the select and the checks on the row it returned ...
PCancelRead(p, u, id) ==
  LET code == CancelCheck(challenges, id, u) IN
  /\ Free(p)
  /\ IF code # 0
     THEN Begin(p, [pc |-> "done", op |-> "cancel", user |-> u, id |-> id, code |-> code])
     ELSE Begin(p, [pc |-> "cancel_update", op |-> "cancel", user |-> u, id |-> id])
  /\ UNCHANGED <<apiClient, variant, today, profiles, challenges, challenge_task_lists, tasks, task_completions, daily_scores, response>>

\* ... and the update
PCancelUpdate(p) ==
  /\ procs[p].pc = "cancel_update"
  /\ challenges' = CancelUpdate(challenges, procs[p].id)
  /\ Set(p, [pc |-> "done", code |-> 200])
  /\ UNCHANGED <<apiClient, variant, today, profiles, challenge_task_lists, tasks, task_completions, daily_scores, response>>

\* complete: the select of the ended active challenges
PCompleteSelect(p) ==
  LET list == EndedActive(challenges, today) IN
  /\ Free(p)
  /\ IF list = {}
     THEN Begin(p, [pc |-> "done", op |-> "complete", code |-> 200])
     ELSE \E c \in list :
            Begin(p, [pc |-> "creator_scores", op |-> "complete",
                      rows |-> [x \in list |-> challenges[x]], todo |-> list \ {c},
                      current |-> c])
  /\ UNCHANGED <<apiClient, variant, today, profiles, challenges, challenge_task_lists, tasks, task_completions, daily_scores, response>>

PCreatorScores(p) ==
  LET me == procs[p]
      ch == me.rows[me.current]
  IN
  /\ me.pc = "creator_scores"
  /\ Set(p, [pc |-> "challenger_scores",
             creatorScores |-> ScoresInRange(daily_scores, ch.creator_id, ch.start_date, ch.end_date)])
  /\ UNCHANGED <<apiClient, variant, today, profiles, challenges, challenge_task_lists, tasks, task_completions, daily_scores, response>>

PChallengerScores(p) ==
  LET me == procs[p]
      ch == me.rows[me.current]
      scores == ScoresInRange(daily_scores, ch.challenger_id, ch.start_date, ch.end_date)
  IN
  /\ me.pc = "challenger_scores"
  /\ Set(p, [pc |-> "update", challengerScores |-> scores,
             winnerId |-> WinnerFrom(ch, me.creatorScores, scores)])
  /\ UNCHANGED <<apiClient, variant, today, profiles, challenges, challenge_task_lists, tasks, task_completions, daily_scores, response>>

\* The next iteration of the loop, or the response
Continue(p, me) ==
  IF me.todo = {}
  THEN Set(p, [pc |-> "done", code |-> 200])
  ELSE \E c \in me.todo : Set(p, [pc |-> "creator_scores", todo |-> me.todo \ {c}, current |-> c])

\* .update({ status: 'completed', winner_id: winnerId }).eq('id', challenge.id)
PCompleteUpdate(p) ==
  LET me == procs[p] IN
  /\ me.pc = "update"
  /\ challenges' = UpdateChallenge(challenges, me.current,
                                   [status |-> "completed", winner_id |-> me.winnerId])
  /\ IF me.winnerId # Null THEN Set(p, [pc |-> "increment_wins"]) ELSE Continue(p, me)
  /\ UNCHANGED <<apiClient, variant, today, profiles, challenge_task_lists, tasks, task_completions, daily_scores, response>>

PIncrementWins(p) ==
  LET me == procs[p] IN
  /\ me.pc = "increment_wins"
  /\ profiles' = IncrementWins(profiles, me.winnerId)
  /\ Set(p, [pc |-> "increment_losses"])
  /\ UNCHANGED <<apiClient, variant, today, challenges, challenge_task_lists, tasks, task_completions, daily_scores, response>>

PIncrementLosses(p) ==
  LET me == procs[p] IN
  /\ me.pc = "increment_losses"
  /\ profiles' = IncrementLosses(profiles, LoserOf(me.rows[me.current], me.winnerId))
  /\ Continue(p, me)
  /\ UNCHANGED <<apiClient, variant, today, challenges, challenge_task_lists, tasks, task_completions, daily_scores, response>>

\* The store two requests may find: empty, or holding the challenge of u1 to u2
\* for one day, pending or accepted.
ConcUsers == CreateCallers
ConcStores ==
  LET ch == NewChallenge("u1", "u2", FirstDay, EndDate(FirstDay, "day", 1))
      mine == {[challenge_id |-> "c1", user_id |-> "u1"]}
      both == mine \cup {[challenge_id |-> "c1", user_id |-> "u2"]}
  IN  { <<v, NoRows, {}>> : v \in Variants } \cup
      { <<"plain", "c1" :> [ch EXCEPT !.status = st], {}>> : st \in {"pending", "active"} } \cup
      { <<"tasklist", "c1" :> ch, mine>>,
        <<"tasklist", "c1" :> [ch EXCEPT !.status = "active"], both>> }

InitConc ==
  /\ InitStore
  /\ \E st \in ConcStores :
       /\ variant = st[1]
       /\ challenges = st[2]
       /\ challenge_task_lists = st[3]
  /\ procs = [p \in ProcIds |-> IdleProc]

ConcNext ==
  \/ \E p \in ProcIds, u \in ConcUsers, name \in UsernameInputs, tail \in TailOutcomes(variant) :
       PCreate(p, u, name, "day", 1, tail)
  \/ \E p \in ProcIds, u \in ConcUsers, id \in ChallengeIds, accept \in BOOLEAN :
       \E task_list_id \in TaskListInputs(variant, accept) :
         PRespondBegin(p, u, id, accept, task_list_id)
  \/ \E p \in ProcIds, tail \in TailOutcomes(variant) : PRespondUpdate(p, tail)
  \/ \E p \in ProcIds, u \in ConcUsers, id \in ChallengeIds : PCancelRead(p, u, id)
  \/ \E p \in ProcIds : PCancelUpdate(p)
  \/ \E p \in ProcIds : PCompleteSelect(p)
  \/ \E p \in ProcIds : PCreatorScores(p)
  \/ \E p \in ProcIds : PChallengerScores(p)
  \/ \E p \in ProcIds : PCompleteUpdate(p)
  \/ \E p \in ProcIds : PIncrementWins(p)
  \/ \E p \in ProcIds : PIncrementLosses(p)
  \/ Tick

SpecConc == InitConc /\ [][ConcNext]_vars

(***************************************************************************)
(* Tasks, completions and the daily score (routes/tasks.js).               *)
(* Hours and earned points are hundredths, points are whole numbers.       *)
(***************************************************************************)
\* Ids of table tasks: "t1", "t2" are handed out in this order, "t0" is never inserted.
TaskIds == {"t1", "t2"}
TaskIdInputs == {"t0", "t1", "t2"}
\* u1 keeps tasks and addresses them and an unknown id; u2 keeps none and
\* addresses u1's first task
TaskOwners == {"u1"}
ScoreCallers == {"u1", "u2"}
TaskRequests == {r \in ScoreCallers \X TaskIdInputs : r[1] \in TaskOwners \/ r[2] = "t1"}
\* req.body: duration_hours (0 or 2 hours), points, actual_duration_hours (-1, 1 or 4 hours)
DurationHoursInputs == {0, 200}
PointsInputs == {10, 20}
ActualHoursInputs == {-100, 100, 400}
\* req.body of an update: a target of 2 hours and the points raised or lowered
UpdateInputs == {200} \X PointsInputs

Abs(n) == IF n < 0 THEN -n ELSE n
Min(a, b) == IF a < b THEN a ELSE b
\* n / d (d > 0) as a numeric column stores it: rounded, halves away from zero
RoundDiv(n, d) ==
  LET q == (2 * Abs(n) + d) \div (2 * d) IN IF n < 0 THEN -q ELSE q
\* a value in hundredths fits a column decimal(p, 2)
FitsDecimal(h, p) == Abs(h) < 10^p

NewTaskId == IF "t1" \notin DOMAIN tasks THEN "t1" ELSE "t2"

\* The tables and the response code a handler of routes/tasks.js leaves.
ScoreResult(tks, comps, scores, code) ==
  [tasks |-> tks, task_completions |-> comps, daily_scores |-> scores, code |-> code]

\* OwnTask without .eq('user_id', req.user.id)
AnyTask(tks, id, u) == id \in DOMAIN tks

\* .eq('id', id).eq('user_id', req.user.id): no filter on is_active
OwnTask(tks, id, u) == id \in DOMAIN tks /\ tks[id].user_id = u

\* POST /tasks
CreateTaskResult(u, duration_hours, points) ==
  IF ~FitsDecimal(duration_hours, 4)
  THEN ScoreResult(tasks, task_completions, daily_scores, 400)
  ELSE ScoreResult(tasks @@ (NewTaskId :> [user_id |-> u, duration_hours |-> duration_hours,
                                           points |-> points, is_active |-> TRUE]),
                   task_completions, daily_scores, 201)

\* UpdateTaskResult with the task's completions recomputed from the new fields
UpdateTaskRecomputing(u, id, duration_hours, points) ==
  IF ~(id \in DOMAIN tasks /\ tasks[id].user_id = u)
  THEN [tasks |-> tasks, task_completions |-> task_completions,
        daily_scores |-> daily_scores, code |-> 400]
  ELSE LET task == [tasks[id] EXCEPT !.duration_hours = duration_hours, !.points = points]
           earned(h) == IF duration_hours > 0
                        THEN (IF (h * points * 100) \div duration_hours < points * 100
                              THEN (h * points * 100) \div duration_hours ELSE points * 100)
                        ELSE 0
       IN  [tasks |-> [tasks EXCEPT ![id] = task],
            task_completions |->
              [k \in DOMAIN task_completions |->
                 IF k[2] = id
                 THEN [task_completions[k] EXCEPT
                         !.earned_points = earned(task_completions[k].actual_duration_hours)]
                 ELSE task_completions[k]],
            daily_scores |-> daily_scores, code |-> 200]

\* PUT /tasks/:id: .single() fails when no row was updated
UpdateTaskResult(u, id, duration_hours, points) ==
  IF ~OwnTask(tasks, id, u) \/ ~FitsDecimal(duration_hours, 4)
  THEN ScoreResult(tasks, task_completions, daily_scores, 400)
  ELSE ScoreResult([tasks EXCEPT ![id].duration_hours = duration_hours, ![id].points = points],
                   task_completions, daily_scores, 200)

\* DeleteTaskResult with the row deleted (and its completions, ON DELETE CASCADE)
DeleteTaskRemoving(u, id) ==
  IF ~(id \in DOMAIN tasks /\ tasks[id].user_id = u)
  THEN [tasks |-> tasks, task_completions |-> task_completions,
        daily_scores |-> daily_scores, code |-> 200]
  ELSE [tasks |-> [t \in DOMAIN tasks \ {id} |-> tasks[t]],
        task_completions |-> [k \in {x \in DOMAIN task_completions : x[2] # id} |->
                                task_completions[k]],
        daily_scores |-> daily_scores, code |-> 200]

\* DELETE /tasks/:id: an update of no row is no error
DeleteTaskResult(u, id) ==
  ScoreResult(IF OwnTask(tasks, id, u) THEN [tasks EXCEPT ![id].is_active = FALSE] ELSE tasks,
              task_completions, daily_scores, 200)

\* Math.min(earnedPoints, task.points) as column earned_points stores it
EarnedPoints(task, actual_duration_hours) ==
  LET earnedPoints == IF task.duration_hours > 0
                      THEN RoundDiv(actual_duration_hours * task.points * 100, task.duration_hours)
                      ELSE 0
  IN  Min(earnedPoints, task.points * 100)

\* percentageScore of calculateDailyScore as column percentage_score stores it
PercentageScore(earnedPoints, totalPossiblePoints) ==
  IF totalPossiblePoints > 0 THEN RoundDiv(earnedPoints * 100, totalPossiblePoints) ELSE 0

\* upsert() without onConflict resolves conflicts on the primary key only: the row
\* sent has no id, so a row with the same (user_id, score_date) violates the UNIQUE
\* constraint; the error returned is not looked at.
UpsertDailyScoreFails(scores, key, row) ==
  \/ key \in DOMAIN scores
  \/ ~FitsDecimal(row.earned_points, 6)
  \/ ~FitsDecimal(row.percentage_score, 5)

UpsertDailyScore(scores, key, row) ==
  IF UpsertDailyScoreFails(scores, key, row) THEN scores ELSE scores @@ (key :> row)

\* The row calculateDailyScore computes from the tables
DailyScoreOf(tks, comps, userId, date) ==
  LET active == {t \in DOMAIN tks : tks[t].user_id = userId /\ tks[t].is_active}
      completions == {k \in DOMAIN comps : k[1] = userId /\ k[3] = date}
      totalPossiblePoints == SumOver(active, [t \in active |-> tks[t].points])
      earnedPoints == SumOver(completions, [k \in completions |-> comps[k].earned_points])
  IN  ScoreRow(totalPossiblePoints, earnedPoints,
               PercentageScore(earnedPoints, totalPossiblePoints))

calculateDailyScore(tks, comps, scores, userId, date) ==
  UpsertDailyScore(scores, <<userId, date>>, DailyScoreOf(tks, comps, userId, date))

\* The upsert of the completion: same conflict rule, UNIQUE(user_id, task_id, completion_date)
UpsertCompletionFails(comps, key, row) ==
  \/ key \in DOMAIN comps
  \/ ~FitsDecimal(row.actual_duration_hours, 4)
  \/ ~FitsDecimal(row.earned_points, 6)

\* POST /tasks/completions
\* RecordCompletionOn with a completion write that adds to the stored row and a
\* daily score that is overwritten
RecordCompletionAdding(tks, comps, scores, date, u, task_id, actual_duration_hours) ==
  IF ~OwnTask(tks, task_id, u)
  THEN ScoreResult(tks, comps, scores, 400)
  ELSE LET key == <<u, task_id, date>>
           old == IF key \in DOMAIN comps THEN comps[key]
                  ELSE [actual_duration_hours |-> 0, earned_points |-> 0]
           row == [actual_duration_hours |-> old.actual_duration_hours + actual_duration_hours,
                   earned_points |-> old.earned_points +
                                     EarnedPoints(tks[task_id], actual_duration_hours)]
           written == [k \in DOMAIN comps \cup {key} |-> IF k = key THEN row ELSE comps[k]]
       IN  ScoreResult(tks, written,
                       [k \in DOMAIN scores \cup {<<u, date>>} |->
                          IF k = <<u, date>> THEN DailyScoreOf(tks, written, u, date)
                          ELSE scores[k]],
                       200)

RecordCompletionOn(tks, comps, scores, date, u, task_id, actual_duration_hours) ==
  IF ~OwnTask(tks, task_id, u)
  THEN ScoreResult(tks, comps, scores, 400)
  ELSE LET key == <<u, task_id, date>>
           row == [actual_duration_hours |-> actual_duration_hours,
                   earned_points |-> EarnedPoints(tks[task_id], actual_duration_hours)]
       IN  IF UpsertCompletionFails(comps, key, row)
           THEN ScoreResult(tks, comps, scores, 400)
           ELSE LET written == comps @@ (key :> row)
                IN  ScoreResult(tks, written,
                                calculateDailyScore(tks, written, scores, u, date), 200)

RecordCompletionResult(u, task_id, actual_duration_hours) ==
  RecordCompletionOn(tasks, task_completions, daily_scores, today,
                     u, task_id, actual_duration_hours)

ApplyScore(op, u, id, hours, r) ==
  /\ tasks' = r.tasks
  /\ task_completions' = r.task_completions
  /\ daily_scores' = r.daily_scores
  /\ response' = [Response(op, u, id, FALSE, r.code, 0) EXCEPT !.hours = hours]
  /\ UNCHANGED <<apiClient, variant, today, profiles, challenges, challenge_task_lists, procs>>

CreateTask(u, duration_hours, points) ==
  /\ DOMAIN tasks # TaskIds
  /\ ApplyScore("createTask", u, Null, 0, CreateTaskResult(u, duration_hours, points))

UpdateTask(u, id, duration_hours, points) ==
  ApplyScore("updateTask", u, id, 0, UpdateTaskResult(u, id, duration_hours, points))

DeleteTask(u, id) == ApplyScore("deleteTask", u, id, 0, DeleteTaskResult(u, id))

RecordCompletion(u, task_id, actual_duration_hours) ==
  ApplyScore("recordCompletion", u, task_id, actual_duration_hours,
             RecordCompletionResult(u, task_id, actual_duration_hours))

InitScore ==
  /\ today = FirstDay
  /\ apiClient = IdleClient
  /\ profiles = InitProfiles
  /\ variant = "plain"
  /\ challenges = NoRows
  /\ challenge_task_lists = {}
  /\ tasks = NoRows
  /\ task_completions = NoRows
  /\ daily_scores = NoRows
  /\ response = Response("none", Null, Null, FALSE, 0, 0)
  /\ procs = [p \in ProcIds |-> IdleProc]

DoCreateTask ==
  \E u \in TaskOwners, d \in DurationHoursInputs, pts \in PointsInputs : CreateTask(u, d, pts)

DoUpdateTask ==
  \E r \in TaskRequests, in \in UpdateInputs : UpdateTask(r[1], r[2], in[1], in[2])

DoDeleteTask == \E r \in TaskRequests : DeleteTask(r[1], r[2])

DoRecordCompletion ==
  \E r \in TaskRequests, a \in ActualHoursInputs : RecordCompletion(r[1], r[2], a)

NextScore == DoCreateTask \/ DoUpdateTask \/ DoDeleteTask \/ DoRecordCompletion

SpecScore == InitScore /\ [][NextScore]_vars

(***************************************************************************)
(* Two completion requests in flight: POST /tasks/completions and          *)
(* calculateDailyScore one storage call at a time.                         *)
(***************************************************************************)
IdleScoreProc ==
  [pc |-> "idle", user |-> Null, task_id |-> Null, hours |-> 0, code |-> 0,
   task |-> Null, totalPossiblePoints |-> 0, earnedPoints |-> 0]

SetScoreProc(p, fields) ==
  procs' = [procs EXCEPT ![p] = [f \in DOMAIN IdleScoreProc |->
                                   IF f \in DOMAIN fields THEN fields[f] ELSE procs[p][f]]]

\* const { data: task, error: taskError } = await supabase.from('tasks')...single()
PTaskLookup(p, u, task_id, actual_duration_hours) ==
  /\ procs[p].pc = "idle"
  /\ SetScoreProc(p, [user |-> u, task_id |-> task_id, hours |-> actual_duration_hours] @@
                      (IF OwnTask(tasks, task_id, u)
                       THEN [pc |-> "upsert", task |-> tasks[task_id]]
                       ELSE [pc |-> "done", code |-> 400]))
  /\ UNCHANGED <<apiClient, variant, today, profiles, challenges, challenge_task_lists, tasks,
                 task_completions, daily_scores, response>>

\* await supabase.from('task_completions').upsert(...)
PUpsertCompletion(p) ==
  LET me == procs[p]
      key == <<me.user, me.task_id, today>>
      row == [actual_duration_hours |-> me.hours,
              earned_points |-> EarnedPoints(me.task, me.hours)]
  IN  /\ me.pc = "upsert"
      /\ IF UpsertCompletionFails(task_completions, key, row)
         THEN /\ SetScoreProc(p, [pc |-> "done", code |-> 400])
              /\ UNCHANGED task_completions
         ELSE /\ SetScoreProc(p, [pc |-> "tasks"])
              /\ task_completions' = task_completions @@ (key :> row)
      /\ UNCHANGED <<apiClient, variant, today, profiles, challenges, challenge_task_lists, tasks,
                     daily_scores, response>>

\* const { data: tasks } = await supabase.from('tasks')...eq('is_active', true)
PSelectTasks(p) ==
  LET me == procs[p]
      active == {t \in DOMAIN tasks : tasks[t].user_id = me.user /\ tasks[t].is_active}
  IN  /\ me.pc = "tasks"
      /\ SetScoreProc(p, [pc |-> "completions",
                          totalPossiblePoints |-> SumOver(active, [t \in active |-> tasks[t].points])])
      /\ UNCHANGED <<apiClient, variant, today, profiles, challenges, challenge_task_lists, tasks,
                     task_completions, daily_scores, response>>

\* const { data: completions } = await supabase.from('task_completions')...
PSelectCompletions(p) ==
  LET me == procs[p]
      completions == {k \in DOMAIN task_completions : k[1] = me.user /\ k[3] = today}
  IN  /\ me.pc = "completions"
      /\ SetScoreProc(p, [pc |-> "score",
                          earnedPoints |-> SumOver(completions,
                                             [k \in completions |-> task_completions[k].earned_points])])
      /\ UNCHANGED <<apiClient, variant, today, profiles, challenges, challenge_task_lists, tasks,
                     task_completions, daily_scores, response>>

\* await supabase.from('daily_scores').upsert(...); res.json({ completion: data })
PUpsertScore(p) ==
  LET me == procs[p] IN
  /\ me.pc = "score"
  /\ daily_scores' = UpsertDailyScore(daily_scores, <<me.user, today>>,
                                      ScoreRow(me.totalPossiblePoints, me.earnedPoints,
                                               PercentageScore(me.earnedPoints,
                                                               me.totalPossiblePoints)))
  /\ SetScoreProc(p, [pc |-> "done", code |-> 200])
  /\ UNCHANGED <<apiClient, variant, today, profiles, challenges, challenge_task_lists, tasks,
                 task_completions, response>>

\* u1's two tasks, as two creates leave them, on a day without completions
ScoreConcTasks ==
  {("t1" :> [user_id |-> "u1", duration_hours |-> 200, points |-> p1, is_active |-> TRUE]) @@
   ("t2" :> [user_id |-> "u1", duration_hours |-> 200, points |-> p2, is_active |-> TRUE]) :
     p1 \in PointsInputs, p2 \in PointsInputs}

InitScoreConc ==
  /\ today = FirstDay
  /\ apiClient = IdleClient
  /\ profiles = InitProfiles
  /\ variant = "plain"
  /\ challenges = NoRows
  /\ challenge_task_lists = {}
  /\ tasks \in ScoreConcTasks
  /\ task_completions = NoRows
  /\ daily_scores = NoRows
  /\ response = Response("none", Null, Null, FALSE, 0, 0)
  /\ procs = [p \in ProcIds |-> IdleScoreProc]

NextScoreConc ==
  \/ \E p \in ProcIds, r \in TaskRequests, a \in ActualHoursInputs : PTaskLookup(p, r[1], r[2], a)
  \/ \E p \in ProcIds : PUpsertCompletion(p)
  \/ \E p \in ProcIds : PSelectTasks(p)
  \/ \E p \in ProcIds : PSelectCompletions(p)
  \/ \E p \in ProcIds : PUpsertScore(p)

SpecScoreConc == InitScoreConc /\ [][NextScoreConc]_vars

(***************************************************************************)
(* Two sweeps in flight on the day a challenge ends, while the             *)
(* participants record completions of that day.                            *)
(***************************************************************************)
\* One task for each participant, as their creates leave them.
SweepTasks ==
  ("t1" :> [user_id |-> "u1", duration_hours |-> 200, points |-> 10, is_active |-> TRUE]) @@
  ("t2" :> [user_id |-> "u2", duration_hours |-> 200, points |-> 10, is_active |-> TRUE])

\* The completions and daily scores of the challenge's first day: the creator has
\* recorded nothing or some hours.
SweepPast ==
  {ScoreResult(SweepTasks, NoRows, NoRows, 0)} \cup
  {RecordCompletionOn(SweepTasks, NoRows, NoRows, FirstDay, "u1", "t1", a) : a \in ActualHoursInputs}

InitSweep ==
  /\ today = EndDate(FirstDay, "day", 1)
  /\ apiClient = IdleClient
  /\ profiles = InitProfiles
  /\ variant = "plain"
  /\ challenges = ("c1" :> [NewChallenge("u1", "u2", FirstDay, EndDate(FirstDay, "day", 1))
                              EXCEPT !.status = "active"])
  /\ challenge_task_lists = {}
  /\ tasks = SweepTasks
  /\ \E past \in SweepPast :
       /\ task_completions = past.task_completions
       /\ daily_scores = past.daily_scores
  /\ response = Response("none", Null, Null, FALSE, 0, 0)
  /\ procs = [p \in ProcIds |-> IdleProc]

NextSweep ==
  \/ \E p \in ProcIds : PCompleteSelect(p)
  \/ \E p \in ProcIds : PCreatorScores(p)
  \/ \E p \in ProcIds : PChallengerScores(p)
  \/ \E p \in ProcIds : PCompleteUpdate(p)
  \/ \E p \in ProcIds : PIncrementWins(p)
  \/ \E p \in ProcIds : PIncrementLosses(p)
  \/ \E t \in DOMAIN SweepTasks, a \in ActualHoursInputs :
       RecordCompletion(SweepTasks[t].user_id, t, a)

SpecSweep == InitSweep /\ [][NextSweep]_vars

(***************************************************************************)
(* ApiClient.request: one call is the attempt and its recursive retries.   *)
(***************************************************************************)
\* What axios settles with: a response status, or 0 for an error without a response.
StatusInputs == {200, 429, 401, 400, 0}
\* What localStorage and setToken hold.
TokenInputs == {Null, "tok"}

SetCall(r, call, token) ==
  /\ apiClient' = [token |-> token, calls |-> [apiClient.calls EXCEPT ![r] = call]]
  /\ UNCHANGED <<variant, today, profiles, challenges, challenge_task_lists, tasks,
                 task_completions, daily_scores, response, procs>>

\* ShouldRetry retrying after every failure
ShouldRetryAnyFailure(status, retryCount) == status # 200 /\ retryCount < MAX_RETRIES

\* error.response?.status === 429 && retryCount < MAX_RETRIES
ShouldRetry(status, retryCount) == status = 429 /\ retryCount < MAX_RETRIES

\* RETRY_DELAY * Math.pow(2, retryCount)
WaitTime(retryCount) == RETRY_DELAY * 2^retryCount

\* request(endpoint, options): the headers are built from this.token, axios is called.
Request(r) ==
  LET call == apiClient.calls[r] IN
  /\ call.pc = "idle"
  /\ SetCall(r, [call EXCEPT !.pc = "axios", !.retryCount = 0,
                             !.authorization = apiClient.token], apiClient.token)

\* The await of axios settles: return response.data, or the catch block up to its
\* await of delay or its throw.
AxiosSettles(r, status) ==
  LET call == apiClient.calls[r]
      got == [call EXCEPT !.statuses = Append(@, status)]
  IN  /\ call.pc = "axios"
      /\ IF status = 200
         THEN SetCall(r, [got EXCEPT !.pc = "returned"], apiClient.token)
         ELSE IF ShouldRetry(status, call.retryCount)
         THEN SetCall(r, [got EXCEPT !.pc = "delay",
                                     !.waits = Append(@, WaitTime(call.retryCount))],
                      apiClient.token)
         ELSE IF status = 401
         THEN SetCall(r, [got EXCEPT !.pc = "thrown", !.thrown = "Session expired"], Null)
         ELSE SetCall(r, [got EXCEPT !.pc = "thrown",
                                     !.thrown = IF status = 0 THEN "Network error"
                                                ELSE "error"],
                      apiClient.token)

\* The delay is over: return this.request(endpoint, options, retryCount + 1)
DelayElapsed(r) ==
  LET call == apiClient.calls[r] IN
  /\ call.pc = "delay"
  /\ SetCall(r, [call EXCEPT !.pc = "axios", !.retryCount = @ + 1,
                             !.authorization = apiClient.token], apiClient.token)

\* setToken(token), as signIn and signOut call it.
SetToken(token) ==
  /\ apiClient.token # token
  /\ apiClient' = [apiClient EXCEPT !.token = token]
  /\ UNCHANGED <<variant, today, profiles, challenges, challenge_task_lists, tasks,
                 task_completions, daily_scores, response, procs>>

\* constructor: this.token = localStorage.getItem('auth_token')
InitApi ==
  /\ today = FirstDay
  /\ \E token \in TokenInputs : apiClient = [IdleClient EXCEPT !.token = token]
  /\ profiles = InitProfiles
  /\ variant = "plain"
  /\ challenges = NoRows
  /\ challenge_task_lists = {}
  /\ tasks = NoRows
  /\ task_completions = NoRows
  /\ daily_scores = NoRows
  /\ response = Response("none", Null, Null, FALSE, 0, 0)
  /\ procs = [p \in ProcIds |-> IdleProc]

NextApi ==
  \/ \E r \in CallIds : Request(r)
  \/ \E r \in CallIds, status \in StatusInputs : AxiosSettles(r, status)
  \/ \E r \in CallIds : DelayElapsed(r)
  \/ \E token \in TokenInputs : SetToken(token)

\* Every call of axios settles and every timer of delay fires.
FairApi ==
  \A r \in CallIds :
    /\ WF_vars(\E status \in StatusInputs : AxiosSettles(r, status))
    /\ WF_vars(DelayElapsed(r))

SpecApi == InitApi /\ [][NextApi]_vars /\ FairApi

(***************************************************************************)
(* Properties.                                                             *)
(***************************************************************************)
TotalWins == SumOver(UserIds, [u \in UserIds |-> profiles[u].total_wins])
TotalLosses == SumOver(UserIds, [u \in UserIds |-> profiles[u].total_losses])
Succeeded(code) == code \in {200, 201}
\* A step of Spec that handles a request of this kind (every handler logs its
\* request in `response`; only Tick moves the clock).
Handled(op) == response'.op = op /\ today' = today

\* C1: however the sweeps run, one after another or interleaved, each challenge
\* causes at most one increment of a win counter and at most one of a loss counter:
\* the counters never add up to more than the number of challenges.
C1_AtMostOneIncrementPerChallenge ==
  /\ TotalWins <= Cardinality(DOMAIN challenges)
  /\ TotalLosses <= Cardinality(DOMAIN challenges)

\* C2: two sweeps run in immediate succession change the counters exactly as one
\* sweep does, and one sweep adds, for each user, one win per ended active challenge
\* the user wins and one loss per ended active challenge the user loses.
C2_TwoSweepsCountOnce ==
  LET once == CompleteRun(Db, today, daily_scores)
      twice == CompleteRun(once, today, daily_scores)
      ended == EndedActive(challenges, today)
      won(u) == {c \in ended : WinnerOf(daily_scores, challenges[c]) = u}
      lost(u) == {c \in ended : /\ WinnerOf(daily_scores, challenges[c]) \notin {Null, u}
                                /\ u \in {challenges[c].creator_id, challenges[c].challenger_id}}
  IN  /\ twice = once
      /\ \A u \in UserIds :
           /\ twice.profiles[u].total_wins = profiles[u].total_wins + Cardinality(won(u))
           /\ twice.profiles[u].total_losses = profiles[u].total_losses + Cardinality(lost(u))

\* C2 witness: a sweep found nothing left to do on a challenge that a sweep completed
\* with a winner, whose win and loss were counted once.
C2_Witness ==
  /\ response.op = "complete" /\ response.completed = 0
  /\ \E c \in DOMAIN challenges :
       /\ challenges[c].status = "completed"
       /\ challenges[c].end_date <= today
       /\ challenges[c].winner_id # Null
       /\ profiles[challenges[c].winner_id].total_wins = 1
       /\ profiles[LoserOf(challenges[c], challenges[c].winner_id)].total_losses = 1

\* C3: a respond by the challenger on a challenge that is not pending fails with
\* status 400 and leaves the challenge as it was.
C3_RespondNeedsPending ==
  [][\A id \in DOMAIN challenges :
       ( /\ Handled("respond")
         /\ response'.id = id
         /\ response'.user = challenges[id].challenger_id
         /\ challenges[id].status # "pending" )
       => (response'.code = 400 /\ challenges' = challenges)]_vars

\* C4: of two accepting responds by the challenger to the same challenge, at most
\* one succeeds.
C4_OneAcceptSucceeds ==
  \A p, q \in ProcIds :
    ( /\ p # q
      /\ procs[p].op = "respond" /\ procs[q].op = "respond"
      /\ procs[p].accept /\ procs[q].accept
      /\ procs[p].id = procs[q].id
      /\ procs[p].pc = "done" /\ procs[q].pc = "done" )
    => ~(Succeeded(procs[p].code) /\ Succeeded(procs[q].code))

\* C5: every change of a challenge's status is pending -> active, pending -> rejected,
\* pending -> cancelled or active -> completed.
LegalTransitions ==
  {<<"pending", "active">>, <<"pending", "rejected">>, <<"pending", "cancelled">>,
   <<"active", "completed">>}

C5_LegalTransitionsOnly ==
  [][\A c \in DOMAIN challenges :
       /\ c \in DOMAIN challenges'
       /\ challenges'[c].status # challenges[c].status
            => <<challenges[c].status, challenges'[c].status>> \in LegalTransitions]_vars

\* C6: a cancel handled alone changes the challenge, to cancelled, only when the
\* caller is the creator and the status is pending; anyone else gets 403, the creator
\* of a challenge that is not pending gets 400, and both leave the store as it was.
C6_CancelOnlyPendingByCreator ==
  [][\A id \in DOMAIN challenges :
       (Handled("cancel") /\ response'.id = id) =>
         IF challenges[id].creator_id # response'.user
         THEN response'.code = 403 /\ challenges' = challenges
         ELSE IF challenges[id].status # "pending"
         THEN response'.code = 400 /\ challenges' = challenges
         ELSE /\ response'.code = 200
              /\ challenges' = [challenges EXCEPT ![id].status = "cancelled"]]_vars

\* C6 witness: the creator's cancel of an accepted challenge was refused with 400.
C6_Witness ==
  /\ response.op = "cancel" /\ response.code = 400
  /\ response.id \in DOMAIN challenges
  /\ challenges[response.id].creator_id = response.user
  /\ challenges[response.id].status = "active"

\* C7: the update of a cancel is applied only to a challenge that is still pending.
C7_CancelWritesOnlyPending ==
  [][\A p \in ProcIds :
       PCancelUpdate(p) => challenges[procs[p].id].status = "pending"]_vars

\* C8: a respond by anyone but the challenger fails and changes no challenge.
C8_RespondOnlyByChallenger ==
  [][\A id \in DOMAIN challenges :
       ( /\ Handled("respond")
         /\ response'.id = id
         /\ response'.user # challenges[id].challenger_id )
       => (~Succeeded(response'.code) /\ challenges' = challenges)]_vars

\* C8 witness: the creator's respond to the pending challenge failed.
C8_Witness ==
  /\ response.op = "respond" /\ ~Succeeded(response.code)
  /\ response.id \in DOMAIN challenges
  /\ challenges[response.id].creator_id = response.user
  /\ challenges[response.id].status = "pending"

\* C9: the challenger's respond to a pending challenge stores active for accept and
\* rejected for decline, and the decline succeeds.
C9_AcceptActiveDeclineRejected ==
  [][\A id \in DOMAIN challenges :
       ( /\ Handled("respond")
         /\ response'.id = id
         /\ response'.user = challenges[id].challenger_id
         /\ challenges[id].status = "pending" )
       => IF response'.accept
          THEN Succeeded(response'.code) => challenges'[id].status = "active"
          ELSE Succeeded(response'.code) /\ challenges'[id].status = "rejected"]_vars

\* C10: every stored daily score has a percentage between 0 and 100 (percentages are
\* hundredths: 10000 is 100.00), also when it was computed after a task with a
\* completion on that date was deactivated or had its points lowered, and the
\* percentage is 0 whenever the total of possible points is 0.
C10_PercentageWithinBounds ==
  \A k \in DOMAIN daily_scores :
    /\ 0 <= daily_scores[k].percentage_score
    /\ daily_scores[k].percentage_score <= 10000
    /\ daily_scores[k].total_possible_points = 0 => daily_scores[k].percentage_score = 0

\* C11: every completion that recordCompletion writes has earned points between 0 and
\* the points of the task at that time, whatever hours and task the handlers accept,
\* and they are min((actual / target) * points, points) when the target is positive
\* and 0 otherwise (earned points are hundredths).
C11_EarnedWithinTaskPoints ==
  [][\A t \in DOMAIN tasks :
       ( /\ Handled("recordCompletion")
         /\ response'.id = t
         /\ Succeeded(response'.code) )
       => LET row == task_completions'[<<response'.user, t, today>>]
              task == tasks[t]
          IN  /\ 0 <= row.earned_points
              /\ row.earned_points <= task.points * 100
              /\ row.earned_points =
                   IF task.duration_hours > 0
                   THEN Min(RoundDiv(row.actual_duration_hours * task.points * 100,
                                     task.duration_hours),
                            task.points * 100)
                   ELSE 0]_vars

\* C12: a recordCompletion by the owner for a key (user, task, date) that already has
\* a completion succeeds and leaves, under that key, the hours of this call and the
\* points earned for them (one row per key holds by construction of the table).
C12_RepeatWriteReplaces ==
  [][\A t \in DOMAIN tasks :
       ( /\ Handled("recordCompletion")
         /\ response'.id = t
         /\ response'.user = tasks[t].user_id
         /\ <<response'.user, t, today>> \in DOMAIN task_completions )
       => /\ Succeeded(response'.code)
          /\ task_completions'[<<response'.user, t, today>>] =
               [actual_duration_hours |-> response'.hours,
                earned_points |-> EarnedPoints(tasks[t], response'.hours)]]_vars

ScoreAt(scores, key) == IF key \in DOMAIN scores THEN scores[key] ELSE Null

\* C13: in every reachable state, for every request, calling recordCompletion twice
\* with the same arguments leaves the same daily score for (user, date) as calling
\* it once.
C13_RecordTwiceSameScore ==
  \A r \in TaskRequests, a \in ActualHoursInputs :
    LET once == RecordCompletionOn(tasks, task_completions, daily_scores, today, r[1], r[2], a)
        twice == RecordCompletionOn(once.tasks, once.task_completions, once.daily_scores,
                                    today, r[1], r[2], a)
    IN  ScoreAt(twice.daily_scores, <<r[1], today>>) = ScoreAt(once.daily_scores, <<r[1], today>>)

\* The second of two calls with the same arguments has been handled, and the day has a score.
C13_Witness ==
  /\ response.op = "recordCompletion"
  /\ response.code = 400
  /\ <<response.user, response.id, today>> \in DOMAIN task_completions
  /\ task_completions[<<response.user, response.id, today>>].actual_duration_hours = response.hours
  /\ task_completions[<<response.user, response.id, today>>].earned_points # 0
  /\ <<response.user, today>> \in DOMAIN daily_scores

\* C14: after every recordCompletion that returns success, the daily score stored for
\* (user, date) has earned points equal to the sum over the user's completions of the
\* date and total possible points equal to the sum of the points of the user's active
\* tasks.
C14_ScoreFreshAfterSuccess ==
  [][(Handled("recordCompletion") /\ Succeeded(response'.code)) =>
       LET u == response'.user
           active == {t \in DOMAIN tasks' : tasks'[t].user_id = u /\ tasks'[t].is_active}
           done == {k \in DOMAIN task_completions' : k[1] = u /\ k[3] = today}
       IN  /\ <<u, today>> \in DOMAIN daily_scores'
           /\ daily_scores'[<<u, today>>].earned_points =
                SumOver(done, [k \in done |-> task_completions'[k].earned_points])
           /\ daily_scores'[<<u, today>>].total_possible_points =
                SumOver(active, [t \in active |-> tasks'[t].points])]_vars

\* C15: when two recordCompletion calls for different tasks of one user and date have
\* both finished with success, however their storage calls interleaved, the stored
\* daily score's earned points are the sum of the two completions' earned points.
C15_NoLostRecompute ==
  \A p, q \in ProcIds :
    ( /\ p # q
      /\ procs[p].pc = "done" /\ procs[q].pc = "done"
      /\ Succeeded(procs[p].code) /\ Succeeded(procs[q].code)
      /\ procs[p].user = procs[q].user
      /\ procs[p].task_id # procs[q].task_id )
    => /\ <<procs[p].user, today>> \in DOMAIN daily_scores
       /\ daily_scores[<<procs[p].user, today>>].earned_points =
            task_completions[<<procs[p].user, procs[p].task_id, today>>].earned_points +
            task_completions[<<procs[q].user, procs[q].task_id, today>>].earned_points

\* C16: when recordCompletion has written its completion and the write of the
\* recomputed daily score fails, the request does not return success.
C16_FailedRecomputeSurfaced ==
  [][( /\ Handled("recordCompletion")
       /\ task_completions' # task_completions
       /\ UpsertDailyScoreFails(daily_scores, <<response'.user, today>>,
                                DailyScoreOf(tasks', task_completions', response'.user, today)) )
     => ~Succeeded(response'.code)]_vars

C18_StatsCountCompleted ==
  \A u \in UserIds :
    LET done == {c \in DOMAIN challenges : challenges[c].status = "completed"}
        won == {c \in done : challenges[c].winner_id = u}
        lost == {c \in done : /\ challenges[c].winner_id \notin {Null, u}
                              /\ u \in {challenges[c].creator_id, challenges[c].challenger_id}}
    IN  /\ profiles[u].total_wins = Cardinality(won)
        /\ profiles[u].total_losses = Cardinality(lost)

\* C19: create answers 404 when challenger_username names no user and 400 when it
\* names the caller, and inserts no challenge in either case; otherwise every
\* challenge it inserts is pending, without winner, created by the caller against the
\* user named; hence every stored challenge has a creator other than its challenger.
C19_CreateRefusesUnknownAndSelf ==
  [][/\ Handled("create") =>
          LET u == response'.user
              name == response'.name
          IN  IF \A x \in UserIds : Usernames[x] # name
              THEN response'.code = 404 /\ challenges' = challenges
              ELSE IF Usernames[u] = name
              THEN response'.code = 400 /\ challenges' = challenges
              ELSE \A c \in DOMAIN challenges' \ DOMAIN challenges :
                     /\ challenges'[c].creator_id = u
                     /\ Usernames[challenges'[c].challenger_id] = name
                     /\ challenges'[c].status = "pending"
                     /\ challenges'[c].winner_id = Null
     /\ \A c \in DOMAIN challenges' : challenges'[c].creator_id # challenges'[c].challenger_id]_vars

\* create has refused a request (an unknown name or the caller's own), and a challenge of
\* an earlier create is stored.
C19_Witness ==
  /\ response.op = "create"
  /\ response.code \in {400, 404}
  /\ response.name \in {"zed", Usernames[response.user]}
  /\ DOMAIN challenges # {}

\* C20: create answers 400 to a duration with an unknown unit or a count that is not
\* positive and inserts nothing, so that every stored challenge ends after it starts.
C20_MalformedDurationRefused ==
  [][/\ Handled("create") =>
          \A dur \in DurationInputs, tail \in TailOutcomes(variant) :
            ( /\ dur[1] \notin {"day", "week", "month", "year"} \/ dur[2] <= 0
              /\ Create(response'.user, response'.name, dur[1], dur[2], tail) )
            => response'.code = 400 /\ challenges' = challenges
     /\ \A c \in DOMAIN challenges' : challenges'[c].end_date > challenges'[c].start_date]_vars

C22_TaskWritesNeedOwner ==
  [][( /\ Handled("updateTask") \/ Handled("deleteTask")
       /\ \/ response'.id \notin DOMAIN tasks
          \/ tasks[response'.id].user_id # response'.user )
     => /\ ~Succeeded(response'.code)
        /\ tasks' = tasks]_vars

\* C23: the end date create computes for a month or year duration has the start's
\* day of month in the target month, or the last day of the target month when that
\* month has no such day (a month from 2025-01-31 is 2025-02-28).
C23_MonthEndClamped ==
  [][Handled("create") =>
       \A dur \in DurationInputs, tail \in TailOutcomes(variant), c \in DOMAIN challenges' :
         ( /\ dur[1] \in {"month", "year"}
           /\ c \notin DOMAIN challenges
           /\ Create(response'.user, response'.name, dur[1], dur[2], tail) )
         => LET months == IF dur[1] = "month" THEN dur[2] ELSE 12 * dur[2]
                index == 12 * GetFullYear(today) + (GetMonth(today) - 1) + months
                y == index \div 12
                m == (index % 12) + 1
                d == IF GetDate(today) <= DaysInMonth(y, m) THEN GetDate(today)
                     ELSE DaysInMonth(y, m)
            IN  challenges'[c].end_date = MakeDay(y, m, d)]_vars

\* C24: a sweep completes exactly the challenges that are active with an end date not
\* after today (today included); every other challenge keeps its row, and the sweep
\* writes no daily score and no completion.
C24_SweepFrame ==
  [][Handled("complete") =>
       /\ DOMAIN challenges' = DOMAIN challenges
       /\ \A c \in DOMAIN challenges :
            IF challenges[c].status = "active" /\ challenges[c].end_date <= today
            THEN challenges'[c].status = "completed"
            ELSE challenges'[c] = challenges[c]
       /\ daily_scores' = daily_scores
       /\ task_completions' = task_completions]_vars

\* A sweep has completed a challenge on the day it ends.
C24_Witness ==
  /\ response.op = "complete"
  /\ response.completed = 1
  /\ \E c \in DOMAIN challenges :
       challenges[c].status = "completed" /\ challenges[c].end_date = today

\* C25: an update of a task's duration_hours or points changes no recorded completion.
C25_UpdateKeepsCompletions ==
  [][Handled("updateTask") => task_completions' = task_completions]_vars

\* The owner has updated a task whose completion of today holds earned points that the
\* task's new fields would not give.
C25_Witness ==
  /\ response.op = "updateTask"
  /\ Succeeded(response.code)
  /\ <<response.user, response.id, today>> \in DOMAIN task_completions
  /\ LET row == task_completions[<<response.user, response.id, today>>]
     IN  row.earned_points # EarnedPoints(tasks[response.id], row.actual_duration_hours)

\* C26: a deactivation by the owner only sets the task's is_active to false; no step
\* removes a task row; the deactivation changes no completion and no daily score;
\* and every daily score written afterwards has total possible points that leave the
\* points of inactive tasks out.
C26_DeactivateOnlyClearsFlag ==
  [][/\ DOMAIN tasks \subseteq DOMAIN tasks'
     /\ ( /\ Handled("deleteTask")
          /\ response'.id \in DOMAIN tasks
          /\ tasks[response'.id].user_id = response'.user )
        => /\ tasks' = [tasks EXCEPT ![response'.id].is_active = FALSE]
           /\ task_completions' = task_completions
           /\ daily_scores' = daily_scores
     /\ \A k \in DOMAIN daily_scores' :
          (k \notin DOMAIN daily_scores \/ daily_scores'[k] # daily_scores[k])
          => LET active == {t \in DOMAIN tasks' : tasks'[t].user_id = k[1] /\ tasks'[t].is_active}
             IN  daily_scores'[k].total_possible_points =
                   SumOver(active, [t \in active |-> tasks'[t].points])]_vars

\* A daily score has been written after a deactivation: a task of the user with a
\* completion today is inactive and the total leaves its points out.
C26_Witness ==
  /\ response.op = "recordCompletion"
  /\ Succeeded(response.code)
  /\ <<response.user, today>> \in DOMAIN daily_scores
  /\ \E t \in DOMAIN tasks :
       /\ tasks[t].user_id = response.user
       /\ ~tasks[t].is_active
       /\ <<response.user, t, today>> \in DOMAIN task_completions
       /\ LET active == {x \in DOMAIN tasks : tasks[x].user_id = response.user /\ tasks[x].is_active}
          IN  /\ active # {}
              /\ daily_scores[<<response.user, today>>].total_possible_points =
                   SumOver(active, [x \in active |-> tasks[x].points])

\* C27: in every reachable state a challenge with a winner has status completed.
C27_WinnerOnlyOnCompleted ==
  \A c \in DOMAIN challenges :
    challenges[c].winner_id # Null => challenges[c].status = "completed"

\* C28: once a challenge is completed its winner never changes, also when a second
\* sweep that selected it while it was active writes after the daily scores changed.
C28_WinnerStable ==
  [][\A c \in DOMAIN challenges :
       challenges[c].status = "completed"
       => challenges'[c].winner_id = challenges[c].winner_id]_vars

\* C29: in the task-list variant a create or respond call that answers with an error
\* leaves the challenges as they were before the call.
C29_ErrorLeavesChallenges ==
  [][(variant = "tasklist" /\ (Handled("create") \/ Handled("respond"))
      /\ ~Succeeded(response'.code))
     => challenges' = challenges]_vars

\* What C30 requires of the log of one call of request.
RequestLogOk(call) ==
  /\ call.retryCount <= MAX_RETRIES
  /\ Len(call.statuses) <= MAX_RETRIES + 1
  /\ Len(call.waits) <= MAX_RETRIES
  /\ \A i \in 1..Len(call.waits) : call.waits[i] = RETRY_DELAY * 2^(i - 1)
  /\ \A i \in 1..(Len(call.statuses) - 1) : call.statuses[i] = 429
  /\ call.pc \in {"axios", "delay"} => Len(call.waits) = Len(call.statuses)
  /\ call.pc \in {"returned", "thrown"} => Len(call.waits) = Len(call.statuses) - 1
  /\ call.pc = "returned" <=> (call.statuses # <<>> /\ call.statuses[Len(call.statuses)] = 200)
  /\ (call.statuses # <<>> /\ call.statuses[Len(call.statuses)] \notin {200, 429})
       => call.pc = "thrown"
  /\ (call.pc = "thrown" /\ call.statuses[Len(call.statuses)] = 429)
       => Len(call.statuses) = MAX_RETRIES + 1

\* A 401 received by call r in this step.
Got401(r) ==
  LET before == apiClient.calls[r].statuses
      after == apiClient'.calls[r].statuses
  IN  after # before /\ after[Len(after)] = 401

\* C30: request terminates; it retries only after a 429, at most MAX_RETRIES times and
\* after waits of 1 s, 2 s and 4 s, so that at most 4 attempts are made; every other
\* failure is thrown without a retry, and a 401 clears the token before the throw.
C30_RequestTerminates ==
  /\ [](\A r \in CallIds : RequestLogOk(apiClient.calls[r]))
  /\ [][\A r \in CallIds :
          Got401(r) => apiClient'.token = Null /\ apiClient'.calls[r].pc = "thrown"]_vars
  /\ \A r \in CallIds :
       (apiClient.calls[r].pc = "axios") ~> (apiClient.calls[r].pc \in {"returned", "thrown"})

\* One call gave up after four attempts and the three waits, another was thrown on a
\* 401 that cleared the token.
C30_Witness ==
  /\ apiClient.calls["r1"].pc = "thrown"
  /\ apiClient.calls["r1"].statuses = <<429, 429, 429, 429>>
  /\ apiClient.calls["r1"].waits = <<1000, 2000, 4000>>
  /\ apiClient.calls["r2"].pc = "thrown"
  /\ apiClient.calls["r2"].authorization = "tok"
  /\ apiClient.calls["r2"].statuses = <<429, 401>>
  /\ apiClient.token = Null

====
